---------------------------- MODULE Spec2Model ----------------------------
(***************************************************************************)
(* Model of the Valentine Flask application (src/app.py): the in-memory    *)
(* state tracker ValentineState and the HTTP handlers that drive it.       *)
(*                                                                         *)
(* Four specifications share the variables:                                *)
(*   Spec        - the deployed program: HTTP requests, each handler one   *)
(*                 atomic step, plus changes of the file system;           *)
(*   SpecTracker - the tracker class driven directly through its three     *)
(*                 methods, with arbitrary Python values as arguments;     *)
(*   SpecAll     - HTTP requests and direct tracker calls together;        *)
(*   SpecConc    - the threaded server: Home, state and choice requests    *)
(*                 run on several threads and interleave between their     *)
(*                 accesses to the shared tracker.                         *)
(***************************************************************************)
EXTENDS Integers, Sequences, FiniteSets, TLC

VARIABLES
    current_state,      \* valentine_state.current_state (a Python value)
    user_choices,       \* valentine_state.user_choices: dict, key string -> Python value
    template_exists,    \* Path('templates/index.html').exists()
    static_dir_exists,  \* Path('static').exists() (and static/videos with it)
    video_exists,       \* Path('static/videos/valentine-video.mp4').exists()
    last,               \* the request or call handled by the last step, the
                        \* current_state it started from (prev), and its answer
    threads             \* SpecConc: where each server thread is in its handler

vars == <<current_state, user_choices, template_exists, static_dir_exists, video_exists, last, threads>>

-----------------------------------------------------------------------------
(* Python values.  Every value is a record of the same shape so that values *)
(* of different Python types can be compared.                               *)

\* largest integer used as a JSON number / non-string argument
MaxInt == 1

PyStr(x) == [t |-> "str", s |-> x, n |-> 0]
PyInt(k) == [t |-> "int", s |-> "", n |-> k]
PyNone == [t |-> "NoneType", s |-> "", n |-> 0]

\* isinstance(v, str)
IsStr(v) == v.t = "str"

\* bool(v): None, 0 and "" are falsy
Truthy(v) ==
    CASE v.t = "str" -> v.s # ""
      [] v.t = "int" -> v.n # 0
      [] OTHER -> FALSE

-----------------------------------------------------------------------------
(* ValentineState                                                           *)

\* self.states
states ==
    << "loading", "ambient_idle", "intro_text", "presence_acknowledgement",
       "distance_visualization", "personal_memory", "valentine_question",
       "decision_state", "confirmation_state", "gentle_exit_state" >>

\* x in self.states  (list membership by ==)
InStates(v) == \E i \in 1..Len(states) : PyStr(states[i]) = v

\* a variant that forgets the membership test
validate_state_no_membership(state) == IsStr(state)

\* validate_state(state)
validate_state(state) ==
    IF ~IsStr(state) THEN FALSE
    ELSE IF ~InStates(state) THEN FALSE
    ELSE TRUE

\* a variant that refuses to leave the two final states
transition_to_sticky(cur, new_state) ==
    IF ~validate_state(new_state)
         \/ cur \in {PyStr("confirmation_state"), PyStr("gentle_exit_state")}
    THEN [ret |-> FALSE, current_state |-> cur]
    ELSE [ret |-> TRUE, current_state |-> new_state]

\* a variant that assigns before it validates
transition_to_assign_first(cur, new_state) ==
    [ret |-> validate_state(new_state), current_state |-> new_state]

\* a variant that reports success without storing the new state
transition_to_no_assign(cur, new_state) ==
    IF ~validate_state(new_state)
    THEN [ret |-> FALSE, current_state |-> cur]
    ELSE [ret |-> TRUE, current_state |-> cur]

\* transition_to(new_state) on a tracker whose current_state is cur:
\* the ValueError raised for an invalid state is caught and gives False.
transition_to(cur, new_state) ==
    IF ~validate_state(new_state)
    THEN [ret |-> FALSE, current_state |-> cur]
    ELSE [ret |-> TRUE, current_state |-> new_state]

\* d[k] = v on a dict
DictPut(d, k, v) == [x \in (DOMAIN d) \cup {k} |-> IF x = k THEN v ELSE d[x]]

\* the empty dict
EmptyDict == [x \in {} |-> PyNone]

\* a variant that keeps the first value recorded for a type
record_choice_keep_first(ch, choice_type, choice_value) ==
    IF ~IsStr(choice_type) \/ ~Truthy(choice_value)
    THEN [ret |-> FALSE, user_choices |-> ch]
    ELSE IF choice_type.s \in DOMAIN ch
    THEN [ret |-> TRUE, user_choices |-> ch]
    ELSE [ret |-> TRUE, user_choices |-> DictPut(ch, choice_type.s, choice_value)]

\* a variant that forgets to test the value
record_choice_no_value_check(ch, choice_type, choice_value) ==
    IF ~IsStr(choice_type)
    THEN [ret |-> FALSE, user_choices |-> ch]
    ELSE [ret |-> TRUE, user_choices |-> DictPut(ch, choice_type.s, choice_value)]

\* record_choice(choice_type, choice_value) on a tracker whose user_choices is ch
record_choice(ch, choice_type, choice_value) ==
    IF ~IsStr(choice_type) \/ ~Truthy(choice_value)
    THEN [ret |-> FALSE, user_choices |-> ch]
    ELSE [ret |-> TRUE, user_choices |-> DictPut(ch, choice_type.s, choice_value)]

-----------------------------------------------------------------------------
(* The file system the handlers look at.  The process runs in /app.  The    *)
(* video directory may hold two symbolic links besides the video asset.     *)

\* str(Path): "/" before each component.  A string is a sequence of chunks,
\* cut so that "videos" is a proper prefix of "videos2".
Chunks(c) == IF c = "videos2" THEN <<"videos", "2">> ELSE <<c>>

RECURSIVE PathStr(_)
PathStr(p) == IF p = <<>> THEN <<>> ELSE <<"/">> \o Chunks(Head(p)) \o PathStr(Tail(p))

\* str.startswith
StartsWith(s, prefix) == Len(prefix) <= Len(s) /\ SubSeq(s, 1, Len(prefix)) = prefix

\* video_dir.resolve(): Path('static/videos') made absolute
VideoDirResolved == <<"app", "static", "videos">>

\* where the symbolic links of the video directory point
SymlinkTarget(filename) ==
    IF filename = "passwd_link" THEN <<"etc", "passwd">>
    ELSE <<"app", "static", "videos2", "clip.mp4">>

Symlinks == {"passwd_link", "sibling_link"}

\* the file names a video request may carry (one URL segment, no "/")
Filenames == {"valentine-video.mp4", "missing.mp4", ".", ".."} \cup Symlinks

\* (video_dir / filename).resolve(): "." and ".." are folded, a symbolic link
\* that exists is followed, anything else is appended
ResolveVideoPath(filename, stat) ==
    CASE filename = "." -> VideoDirResolved
      [] filename = ".." -> SubSeq(VideoDirResolved, 1, Len(VideoDirResolved) - 1)
      [] filename \in Symlinks /\ stat -> SymlinkTarget(filename)
      [] OTHER -> Append(VideoDirResolved, filename)

\* (video_dir / filename).exists()
VideoPathExists(filename, stat, vid) ==
    CASE filename = "valentine-video.mp4" -> vid
      [] filename = "missing.mp4" -> FALSE
      [] OTHER -> stat

\* os.path.isfile of the joined path inside send_from_directory; ".." is
\* refused by its safe_join
IsServableFile(filename, stat, vid) ==
    CASE filename = "valentine-video.mp4" -> vid
      [] filename \in Symlinks -> stat
      [] OTHER -> FALSE

-----------------------------------------------------------------------------
(* Request handlers.  Each gives the tracker fields after the request and   *)
(* the response: HTTP status, a text (error / message / health status),     *)
(* the tracker call's return value and the current_state field of the JSON. *)

Result(cur, ch, status, text, ret, cs) ==
    [current_state |-> cur, user_choices |-> ch, status |-> status,
     text |-> text, ret |-> ret, cs |-> cs]

\* a variant that resets the state only once the template was found
index_reset_after_template_check(cur, ch, tmpl, vid, render_ok) ==
    IF ~tmpl
    THEN Result(cur, ch, 500, "Template error", FALSE, PyNone)
    ELSE LET t == transition_to(cur, PyStr("loading")) IN
         IF render_ok
         THEN Result(t.current_state, ch, 200, IF vid THEN "index video" ELSE "index fallback", t.ret, PyNone)
         ELSE Result(t.current_state, ch, 500, "Error loading page", t.ret, PyNone)

\* a variant that starts a new session with no choices
index_clears_choices(cur, ch, tmpl, vid, render_ok) ==
    LET t == transition_to(cur, PyStr("loading")) IN
    IF ~tmpl
    THEN Result(t.current_state, EmptyDict, 500, "Template error", t.ret, PyNone)
    ELSE IF render_ok
    THEN Result(t.current_state, EmptyDict, 200, IF vid THEN "index video" ELSE "index fallback", t.ret, PyNone)
    ELSE Result(t.current_state, EmptyDict, 500, "Error loading page", t.ret, PyNone)

\* index(): GET /
index(cur, ch, tmpl, vid, render_ok) ==
    LET t == transition_to(cur, PyStr("loading")) IN
    IF ~tmpl
    THEN Result(t.current_state, ch, 500, "Template error", t.ret, PyNone)
    ELSE IF render_ok
    THEN Result(t.current_state, ch, 200, IF vid THEN "index video" ELSE "index fallback", t.ret, PyNone)
    ELSE Result(t.current_state, ch, 500, "Error loading page", t.ret, PyNone)

\* a variant that leaves the validation to transition_to
transition_state_no_validation(cur, ch, state_name) ==
    LET t == transition_to(cur, state_name) IN
    IF ~t.ret
    THEN Result(t.current_state, ch, 500, "State transition failed", FALSE, PyNone)
    ELSE Result(t.current_state, ch, 200, "Transitioned", TRUE, t.current_state)

\* transition_state(state_name): POST /api/state/<state_name>
transition_state(cur, ch, state_name) ==
    IF ~validate_state(state_name)
    THEN Result(cur, ch, 400, "Invalid state", FALSE, PyNone)
    ELSE LET t == transition_to(cur, state_name) IN
         IF ~t.ret
         THEN Result(t.current_state, ch, 500, "State transition failed", FALSE, PyNone)
         ELSE Result(t.current_state, ch, 200, "Transitioned", TRUE, t.current_state)

\* the JSON bodies of a choice request, by what request.get_json() does:
\*   "raise"   - it raises: the payload is missing, empty or malformed
\*               although announced as JSON (BadRequest), or it is not
\*               announced as JSON (UnsupportedMediaType in Flask >= 2.1);
\*   "falsy"   - it gives a falsy value: null, {}, [], 0, "" (and None for a
\*               payload not announced as JSON in Flask < 2.1);
\*   "nondict" - it gives a truthy value that is no dict, so data.get raises;
\*   "dict"    - it gives a dict whose 'type' and 'value' entries are t and v
\*               (None when the key is absent).
\* Whatever is raised inside the route is caught by its "except Exception".
Body(kind, t, v) == [kind |-> kind, type |-> t, value |-> v]

\* a variant whose special case performs no transition for "yes"
HandleSpecialChoices_no_yes(cur, ch, choice_type, choice_value) ==
    IF choice_type = PyStr("valentine_response")
         /\ choice_value \in {PyStr("maybe"), PyStr("friends")}
    THEN Result(transition_to(cur, PyStr("gentle_exit_state")).current_state, ch,
                200, "Your feelings are valid", TRUE, PyStr("gentle_exit_state"))
    ELSE Result(cur, ch, 200, "", TRUE, PyNone)

\* a variant whose second special case lists "maybe" alone
HandleSpecialChoices_maybe_only(cur, ch, choice_type, choice_value) ==
    IF choice_type = PyStr("valentine_response")
    THEN IF choice_value = PyStr("yes")
         THEN Result(transition_to(cur, PyStr("confirmation_state")).current_state, ch,
                     200, "Love is in the air", TRUE, PyStr("confirmation_state"))
         ELSE IF choice_value \in {PyStr("maybe")}
         THEN Result(transition_to(cur, PyStr("gentle_exit_state")).current_state, ch,
                     200, "Your feelings are valid", TRUE, PyStr("gentle_exit_state"))
         ELSE Result(cur, ch, 200, "", TRUE, PyNone)
    ELSE Result(cur, ch, 200, "", TRUE, PyNone)

\* a variant that does not look at the choice type
HandleSpecialChoices_any_type(cur, ch, choice_type, choice_value) ==
    IF choice_value = PyStr("yes")
    THEN Result(transition_to(cur, PyStr("confirmation_state")).current_state, ch,
                200, "Love is in the air", TRUE, PyStr("confirmation_state"))
    ELSE IF choice_value \in {PyStr("maybe"), PyStr("friends")}
    THEN Result(transition_to(cur, PyStr("gentle_exit_state")).current_state, ch,
                200, "Your feelings are valid", TRUE, PyStr("gentle_exit_state"))
    ELSE Result(cur, ch, 200, "", TRUE, PyNone)

\* the special cases of the choice route, after the choice was recorded
HandleSpecialChoices(cur, ch, choice_type, choice_value) ==
    IF choice_type = PyStr("valentine_response")
    THEN IF choice_value = PyStr("yes")
         THEN Result(transition_to(cur, PyStr("confirmation_state")).current_state, ch,
                     200, "Love is in the air", TRUE, PyStr("confirmation_state"))
         ELSE IF choice_value \in {PyStr("maybe"), PyStr("friends")}
         THEN Result(transition_to(cur, PyStr("gentle_exit_state")).current_state, ch,
                     200, "Your feelings are valid", TRUE, PyStr("gentle_exit_state"))
         ELSE Result(cur, ch, 200, "", TRUE, PyNone)
    ELSE Result(cur, ch, 200, "", TRUE, PyNone)

\* record_choice(): POST /api/choice.  cs carries next_state of the response.
record_choice_route(cur, ch, body) ==
    CASE body.kind = "raise" -> Result(cur, ch, 500, "exception", FALSE, PyNone)
      [] body.kind = "falsy" -> Result(cur, ch, 400, "No data provided", FALSE, PyNone)
      [] body.kind = "nondict" -> Result(cur, ch, 500, "exception", FALSE, PyNone)
      [] OTHER ->
           IF ~Truthy(body.type) \/ ~Truthy(body.value)
           THEN Result(cur, ch, 400, "Missing choice data", FALSE, PyNone)
           ELSE LET r == record_choice(ch, body.type, body.value) IN
                IF ~r.ret
                THEN Result(cur, r.user_choices, 500, "Failed to record choice", FALSE, PyNone)
                ELSE HandleSpecialChoices(cur, r.user_choices, body.type, body.value)

\* a variant that also requires the video asset
health_check_with_video(cur, ch, tmpl, stat, vid) ==
    LET state_valid == validate_state(cur)
        all_good == tmpl /\ stat /\ vid /\ state_valid
    IN Result(cur, ch, 200, IF all_good THEN "healthy" ELSE "degraded", state_valid, cur)

\* health_check(): GET /api/health
health_check(cur, ch, tmpl, stat, vid) ==
    LET state_valid == validate_state(cur)
        all_good == tmpl /\ stat /\ state_valid
    IN Result(cur, ch, 200, IF all_good THEN "healthy" ELSE "degraded", state_valid, cur)

\* the body of serve_video's try block: abort(403), abort(404) and a failing
\* send_from_directory raise an HTTPException, a served file returns 200
ServeVideoTry(filename, stat, vid) ==
    IF ~StartsWith(PathStr(ResolveVideoPath(filename, stat)), PathStr(VideoDirResolved))
    THEN [raised |-> TRUE, status |-> 403]
    ELSE IF ~VideoPathExists(filename, stat, vid)
    THEN [raised |-> TRUE, status |-> 404]
    ELSE IF ~IsServableFile(filename, stat, vid)
    THEN [raised |-> TRUE, status |-> 404]
    ELSE [raised |-> FALSE, status |-> 200]

\* serve_video(filename): GET /static/videos/<filename>.  HTTPException is a
\* subclass of Exception, so "except Exception" catches every abort of the try
\* block and answers abort(500).
serve_video(cur, ch, filename, stat, vid) ==
    LET b == ServeVideoTry(filename, stat, vid) IN
    IF b.raised
    THEN Result(cur, ch, 500, "error", FALSE, PyNone)
    ELSE Result(cur, ch, b.status, "file contents", FALSE, PyNone)

-----------------------------------------------------------------------------
(* Inputs                                                                   *)

Labels == {states[i] : i \in 1..Len(states)}

ValidStates == {PyStr(l) : l \in Labels}

\* the <state_name> segment of a URL: always a non-empty string
UrlStateNames == ValidStates \cup {PyStr("bogus")}

\* arguments of a direct tracker call
Ints == {PyInt(k) : k \in 0..MaxInt}
StateArgs == UrlStateNames \cup {PyStr(""), PyNone} \cup Ints
TypeArgs == {PyStr("valentine_response"), PyStr("mood"), PyStr(""), PyNone} \cup Ints

\* the values tried with a type: every kind of value with "valentine_response",
\* one truthy and two falsy values with the other types
ValueArgs(t) ==
    IF t = PyStr("valentine_response")
    THEN {PyStr("yes"), PyStr("maybe"), PyStr("friends"), PyStr("no"), PyStr(""), PyNone} \cup Ints
    ELSE {PyStr("yes"), PyStr(""), PyNone}

Bodies ==
    {Body("raise", PyNone, PyNone), Body("falsy", PyNone, PyNone), Body("nondict", PyNone, PyNone)}
    \cup UNION {{Body("dict", t, v) : v \in ValueArgs(t)} : t \in TypeArgs}

-----------------------------------------------------------------------------
(* State machine                                                            *)

Last(op, arg, body, r) ==
    [op |-> op, arg |-> arg, body |-> body, prev |-> current_state,
     status |-> r.status, text |-> r.text, ret |-> r.ret, cs |-> r.cs, raced |-> FALSE]

NoBody == Body("none", PyNone, PyNone)

\* number of server threads handling requests at the same time
NumThreads == 2

Threads == 1..NumThreads

\* a thread between requests
IdleThread == [pc |-> "idle", arg |-> PyNone, raced |-> FALSE]

\* module start: the tracker is constructed, the required directories are made
Init ==
    /\ current_state = PyStr("loading")
    /\ user_choices = EmptyDict
    /\ template_exists \in BOOLEAN
    /\ static_dir_exists = TRUE
    /\ video_exists \in BOOLEAN
    /\ last = [op |-> "init", arg |-> PyNone, body |-> NoBody, prev |-> PyNone,
               status |-> 0, text |-> "", ret |-> FALSE, cs |-> PyNone, raced |-> FALSE]
    /\ threads = [t \in Threads |-> IdleThread]

Apply(op, arg, body, r) ==
    /\ current_state' = r.current_state
    /\ user_choices' = r.user_choices
    /\ last' = Last(op, arg, body, r)
    /\ UNCHANGED threads

Fs == <<template_exists, static_dir_exists, video_exists>>

HomeRequest ==
    \E render_ok \in BOOLEAN :
        /\ Apply("home", PyNone, NoBody,
                 index(current_state, user_choices, template_exists, video_exists, render_ok))
        /\ UNCHANGED Fs

StateRequest ==
    \E state_name \in UrlStateNames :
        /\ Apply("state", state_name, NoBody,
                 transition_state(current_state, user_choices, state_name))
        /\ UNCHANGED Fs

ChoiceRequest ==
    \E body \in Bodies :
        /\ Apply("choice", PyNone, body, record_choice_route(current_state, user_choices, body))
        /\ UNCHANGED Fs

HealthRequest ==
    /\ Apply("health", PyNone, NoBody,
             health_check(current_state, user_choices, template_exists,
                          static_dir_exists, video_exists))
    /\ UNCHANGED Fs

VideoRequest ==
    \E filename \in Filenames :
        /\ Apply("video", PyStr(filename), NoBody,
                 serve_video(current_state, user_choices, filename,
                             static_dir_exists, video_exists))
        /\ UNCHANGED Fs

\* the file system changes under the running process; the video asset lives
\* inside the static directory
FsChange ==
    /\ template_exists' \in BOOLEAN
    /\ static_dir_exists' \in BOOLEAN
    /\ video_exists' \in BOOLEAN
    /\ video_exists' => static_dir_exists'
    /\ Fs' # Fs
    /\ last' = [op |-> "fs", arg |-> PyNone, body |-> NoBody, prev |-> current_state,
                status |-> 0, text |-> "", ret |-> FALSE, cs |-> PyNone, raced |-> FALSE]
    /\ UNCHANGED <<current_state, user_choices, threads>>

\* direct calls of the tracker's methods
ValidateStateCall ==
    \E state \in StateArgs :
        /\ last' = [op |-> "validate_state", arg |-> state, body |-> NoBody,
                    prev |-> current_state, status |-> 0,
                    text |-> "", ret |-> validate_state(state), cs |-> PyNone, raced |-> FALSE]
        /\ UNCHANGED <<current_state, user_choices, Fs, threads>>

TransitionToCall ==
    \E new_state \in StateArgs :
        LET t == transition_to(current_state, new_state) IN
        /\ current_state' = t.current_state
        /\ last' = [op |-> "transition_to", arg |-> new_state, body |-> NoBody,
                    prev |-> current_state, status |-> 0,
                    text |-> "", ret |-> t.ret, cs |-> PyNone, raced |-> FALSE]
        /\ UNCHANGED <<user_choices, Fs, threads>>

RecordChoiceCall ==
    \E choice_type \in TypeArgs : \E choice_value \in ValueArgs(choice_type) :
        LET r == record_choice(user_choices, choice_type, choice_value) IN
        /\ user_choices' = r.user_choices
        /\ last' = [op |-> "record_choice", arg |-> PyNone,
                    body |-> Body("call", choice_type, choice_value),
                    prev |-> current_state, status |-> 0,
                    text |-> "", ret |-> r.ret, cs |-> PyNone, raced |-> FALSE]
        /\ UNCHANGED <<current_state, Fs, threads>>

Next ==
    \/ HomeRequest
    \/ StateRequest
    \/ ChoiceRequest
    \/ HealthRequest
    \/ VideoRequest
    \/ FsChange

Spec == Init /\ [][Next]_vars

NextTracker ==
    \/ ValidateStateCall
    \/ TransitionToCall
    \/ RecordChoiceCall

\* a complete installation: the template and the video asset are in place
InitInstalled == Init /\ template_exists /\ video_exists

SpecTracker == InitInstalled /\ [][NextTracker]_vars

NextAll ==
    \/ HomeRequest
    \/ StateRequest
    \/ ChoiceRequest
    \/ HealthRequest
    \/ VideoRequest
    \/ ValidateStateCall
    \/ TransitionToCall
    \/ RecordChoiceCall

SpecAll == InitInstalled /\ [][NextAll]_vars

-----------------------------------------------------------------------------
(* The threaded server (app.run(threaded=True)): no lock guards the         *)
(* tracker, so a handler can be overtaken between two of its accesses to    *)
(* valentine_state.  A step is one access to the shared tracker.            *)

\* the state names and bodies sent while requests interleave
ConcStateNames == {PyStr("intro_text"), PyStr("gentle_exit_state"), PyStr("bogus")}

ConcBodies ==
    {Body("falsy", PyNone, PyNone),
     Body("dict", PyStr("valentine_response"), PyStr("yes")),
     Body("dict", PyStr("mood"), PyStr("yes"))}

\* the response a thread sends when its request is over
ConcLast(op, arg, body, status, text, ret, cs, raced) ==
    [op |-> op, arg |-> arg, body |-> body, prev |-> PyNone, status |-> status,
     text |-> text, ret |-> ret, cs |-> cs, raced |-> raced]

\* thread t stores to current_state: every other thread that has made its
\* own transition and not yet read current_state back has been overtaken
Overtake(thr, t) ==
    [u \in Threads |->
        IF u # t /\ thr[u].pc = "state_transitioned"
        THEN [thr[u] EXCEPT !.raced = TRUE]
        ELSE thr[u]]

\* transition_state, line 160: validate_state(state_name)
ConcStateValidate(t) ==
    \E state_name \in ConcStateNames :
        /\ threads[t].pc = "idle"
        /\ IF ~validate_state(state_name)
           THEN /\ last' = ConcLast("state", state_name, NoBody, 400, "Invalid state",
                                    FALSE, PyNone, FALSE)
                /\ UNCHANGED threads
           ELSE /\ threads' = [threads EXCEPT ![t] =
                                  [pc |-> "state_validated", arg |-> state_name, raced |-> FALSE]]
                /\ UNCHANGED last
        /\ UNCHANGED <<current_state, user_choices, Fs>>

\* transition_state, lines 163-165: success = transition_to(state_name)
ConcStateTransition(t) ==
    /\ threads[t].pc = "state_validated"
    /\ LET r == transition_to(current_state, threads[t].arg) IN
       /\ current_state' = r.current_state
       /\ IF ~r.ret
          THEN /\ last' = ConcLast("state", threads[t].arg, NoBody, 500,
                                   "State transition failed", FALSE, PyNone, FALSE)
               /\ threads' = [threads EXCEPT ![t] = IdleThread]
          ELSE /\ threads' = [Overtake(threads, t) EXCEPT ![t].pc = "state_transitioned"]
               /\ UNCHANGED last
    /\ UNCHANGED <<user_choices, Fs>>

\* transition_state, lines 167-171: the response reads current_state again
ConcStateRespond(t) ==
    /\ threads[t].pc = "state_transitioned"
    /\ last' = ConcLast("state", threads[t].arg, NoBody, 200, "Transitioned",
                        TRUE, current_state, threads[t].raced)
    /\ threads' = [threads EXCEPT ![t] = IdleThread]
    /\ UNCHANGED <<current_state, user_choices, Fs>>

\* record_choice route, lines 181-198: up to and including the tracker's
\* record_choice; a special choice leaves its transition pending
ConcChoiceRecord(t) ==
    \E body \in ConcBodies :
        LET r == record_choice_route(current_state, user_choices, body) IN
        /\ threads[t].pc = "idle"
        /\ user_choices' = r.user_choices
        /\ IF r.status = 200 /\ r.cs # PyNone
           THEN /\ threads' = [threads EXCEPT ![t] =
                                  [pc |-> "choice_recorded", arg |-> r.cs, raced |-> FALSE]]
                /\ UNCHANGED last
           ELSE /\ last' = ConcLast("choice", PyNone, body, r.status, r.text, r.ret, r.cs, FALSE)
                /\ UNCHANGED threads
        /\ UNCHANGED <<current_state, Fs>>

\* record_choice route, lines 199-208: the special choice's transition_to
ConcChoiceTransition(t) ==
    /\ threads[t].pc = "choice_recorded"
    /\ LET r == transition_to(current_state, threads[t].arg) IN
       /\ current_state' = r.current_state
       /\ threads' = [IF r.ret THEN Overtake(threads, t) ELSE threads EXCEPT ![t] = IdleThread]
       /\ last' = ConcLast("choice", PyNone, NoBody, 200, "special", TRUE, threads[t].arg, FALSE)
    /\ UNCHANGED <<user_choices, Fs>>

\* index: its one access to the tracker is transition_to('loading')
ConcHome(t) ==
    \E render_ok \in BOOLEAN :
        LET r == index(current_state, user_choices, template_exists, video_exists, render_ok) IN
        /\ threads[t].pc = "idle"
        /\ current_state' = r.current_state
        /\ user_choices' = r.user_choices
        /\ threads' = IF r.ret THEN Overtake(threads, t) ELSE threads
        /\ last' = ConcLast("home", PyNone, NoBody, r.status, r.text, r.ret, r.cs, FALSE)
        /\ UNCHANGED Fs

NextConc ==
    \E t \in Threads :
        \/ ConcStateValidate(t)
        \/ ConcStateTransition(t)
        \/ ConcStateRespond(t)
        \/ ConcChoiceRecord(t)
        \/ ConcChoiceTransition(t)
        \/ ConcHome(t)

SpecConc == InitInstalled /\ [][NextConc]_vars

-----------------------------------------------------------------------------
(* Properties                                                               *)

\* the ten labels, as the specification lists them
TenLabels ==
    { "loading", "ambient_idle", "intro_text", "presence_acknowledgement",
      "distance_visualization", "personal_memory", "valentine_question",
      "decision_state", "confirmation_state", "gentle_exit_state" }

LabelValues == {PyStr(l) : l \in TenLabels}

Terminal == {PyStr("confirmation_state"), PyStr("gentle_exit_state")}

\* an empty or missing choice value
EmptyValues == {PyStr(""), PyNone}

\* C1: in every reachable state current_state is one of the ten labels, and
\* before any request has been handled it is "loading".
C1_StateAlwaysALabel ==
    /\ current_state \in LabelValues
    /\ Cardinality(TenLabels) = 10
    /\ last.op = "init" => current_state = PyStr("loading")

\* C1 witness: an invalid state request was refused while the tracker was in
\* a state other than the initial one.
C1_Witness ==
    /\ last.op = "state"
    /\ last.arg = PyStr("bogus")
    /\ last.status = 400
    /\ current_state = PyStr("gentle_exit_state")

\* C2: transition_to(L) with L one of the ten labels returns True and leaves
\* current_state = L, whatever the state before the call.
C2_ValidTransitionAccepted ==
    (last.op = "transition_to" /\ last.arg \in LabelValues)
        => (last.ret = TRUE /\ current_state = last.arg)

\* C2 witness: a direct transition out of a final state, and one onto itself,
\* are both in reach; this one leaves confirmation_state.
C2_Witness ==
    /\ last.op = "transition_to"
    /\ last.prev = PyStr("confirmation_state")
    /\ last.arg = PyStr("intro_text")
    /\ current_state = PyStr("intro_text")

\* C3: transition_to(x) with x not one of the ten labels (another string or a
\* non-string) returns False and current_state is what it was before the call.
C3_InvalidTransitionRejected ==
    (last.op = "transition_to" /\ last.arg \notin LabelValues)
        => (last.ret = FALSE /\ current_state = last.prev)

\* C3 witness: a non-string argument was refused in a non-initial state.
C3_Witness ==
    /\ last.op = "transition_to"
    /\ last.arg = PyInt(1)
    /\ last.ret = FALSE
    /\ current_state = PyStr("ambient_idle")

\* C4: a choice request {type: "valentine_response", value: "yes"} ends with
\* current_state = confirmation_state and choices["valentine_response"] = "yes".
C4_YesConfirms ==
    (last.op = "choice" /\ last.body = Body("dict", PyStr("valentine_response"), PyStr("yes")))
        => /\ last.status = 200
           /\ current_state = PyStr("confirmation_state")
           /\ "valentine_response" \in DOMAIN user_choices
           /\ user_choices["valentine_response"] = PyStr("yes")

\* C4 witness: "yes" was recorded starting from the other final state.
C4_Witness ==
    /\ last.op = "choice"
    /\ last.body = Body("dict", PyStr("valentine_response"), PyStr("yes"))
    /\ last.prev = PyStr("gentle_exit_state")
    /\ current_state = PyStr("confirmation_state")

\* C5: a choice request with type "valentine_response" and value "maybe" or
\* "friends" ends with current_state = gentle_exit_state.
C5_MaybeFriendsExit ==
    (last.op = "choice"
       /\ last.body \in {Body("dict", PyStr("valentine_response"), PyStr("maybe")),
                         Body("dict", PyStr("valentine_response"), PyStr("friends"))})
        => (last.status = 200 /\ current_state = PyStr("gentle_exit_state"))

\* C5 witness: "friends" was recorded starting from confirmation_state.
C5_Witness ==
    /\ last.op = "choice"
    /\ last.body = Body("dict", PyStr("valentine_response"), PyStr("friends"))
    /\ last.prev = PyStr("confirmation_state")
    /\ current_state = PyStr("gentle_exit_state")

\* C6: record_choice(type, value) with an empty or missing value returns
\* False and leaves user_choices as it was; a choice request with such a value
\* is answered with an error status and changes neither user_choices nor
\* current_state.
C6_EmptyValueRejected ==
    [][ /\ (last'.op = "record_choice" /\ last'.body.value \in EmptyValues)
            => (last'.ret = FALSE /\ user_choices' = user_choices)
        /\ (last'.op = "choice" /\ last'.body.kind = "dict" /\ last'.body.value \in EmptyValues)
            => (last'.status >= 400 /\ user_choices' = user_choices
                /\ current_state' = current_state) ]_vars

\* C6 witness: the tracker refused an empty value while choices held an
\* earlier answer recorded through the route.
C6_Witness ==
    /\ last.op = "record_choice"
    /\ last.body = Body("call", PyStr("valentine_response"), PyStr(""))
    /\ last.ret = FALSE
    /\ current_state = PyStr("confirmation_state")
    /\ "valentine_response" \in DOMAIN user_choices
    /\ user_choices["valentine_response"] = PyStr("yes")

\* the resolved path of a requested file lies under the video directory,
\* component by component
RECURSIVE IsPathPrefix(_, _)
IsPathPrefix(dir, p) ==
    \/ dir = <<>>
    \/ p # <<>> /\ Head(dir) = Head(p) /\ IsPathPrefix(Tail(dir), Tail(p))

ResolvesInside(filename) ==
    IsPathPrefix(VideoDirResolved, ResolveVideoPath(filename, static_dir_exists))

\* C7 (as claimed): a video request whose file name resolves outside the
\* video directory is answered with 403.
C7_TraversalGets403 ==
    (last.op = "video" /\ ~ResolvesInside(last.arg.s)) => last.status = 403

\* C8 (as claimed): a video request whose file name resolves inside the video
\* directory and names no existing file is answered with 404.
C8_MissingGets404 ==
    (last.op = "video" /\ ResolvesInside(last.arg.s)
       /\ ~VideoPathExists(last.arg.s, static_dir_exists, video_exists))
        => last.status = 404

\* C9: the health check answers "healthy" exactly when the template exists,
\* the static root exists and current_state is one of the ten labels, and
\* "degraded" otherwise; the video asset plays no part.
C9_HealthStatus ==
    last.op = "health"
        => /\ last.status = 200
           /\ last.text \in {"healthy", "degraded"}
           /\ last.text = "healthy"
                <=> (template_exists /\ static_dir_exists /\ current_state \in LabelValues)

\* C9 witness: healthy although the video asset is missing.
C9_Witness ==
    /\ last.op = "health"
    /\ last.text = "healthy"
    /\ ~video_exists
    /\ current_state = PyStr("decision_state")

\* C10 (as claimed): current_state moves into confirmation_state or
\* gentle_exit_state only through a choice request of type
\* "valentine_response".
C10_TerminalOnlyByChoice ==
    (current_state \in Terminal /\ last.prev # current_state)
        => (last.op = "choice" /\ last.body.type = PyStr("valentine_response"))

\* C10 (amended): current_state moves into confirmation_state or
\* gentle_exit_state only through a choice request of type
\* "valentine_response" or through a state request that names that very
\* label; no Home, health or video request moves it there.
C10_TerminalByChoiceOrStateRequest ==
    (current_state \in Terminal /\ last.prev # current_state)
        => \/ last.op = "choice" /\ last.body.type = PyStr("valentine_response")
           \/ last.op = "state" /\ last.arg = current_state

\* C10 witness: a state request took the tracker from loading straight into
\* confirmation_state.
C10_Witness ==
    /\ last.op = "state"
    /\ last.arg = PyStr("confirmation_state")
    /\ last.prev = PyStr("loading")
    /\ current_state = PyStr("confirmation_state")
    /\ user_choices = EmptyDict

\* a choice type that is not a non-empty string
NotNonEmptyString(v) == v.t # "str" \/ v.s = ""

\* C11 (as claimed): record_choice(type, value) returns False and leaves
\* user_choices unchanged whenever type is not a non-empty string, the empty
\* string "" included, whatever the value.
C11_EmptyTypeRejected ==
    [][ (last'.op = "record_choice" /\ NotNonEmptyString(last'.body.type))
            => (last'.ret = FALSE /\ user_choices' = user_choices) ]_vars

\* C12: after a Home request current_state is "loading", from every prior
\* state and whether or not the template or the video asset exists, also when
\* the answer is the 500 fallback page.
C12_HomeResetsToLoading ==
    last.op = "home" => (last.status \in {200, 500} /\ current_state = PyStr("loading"))

\* C12 witness: the template is missing, the answer is 500, and the tracker
\* was in a final state before.
C12_Witness ==
    /\ last.op = "home"
    /\ last.status = 500
    /\ ~template_exists
    /\ ~video_exists
    /\ last.prev = PyStr("confirmation_state")
    /\ current_state = PyStr("loading")

\* C13: a state request whose label is not one of the ten labels is answered
\* 400 with success = false and changes neither current_state nor
\* user_choices; one whose label is in the set is answered 200 with
\* success = true.
C13_StateRequestStatus ==
    [][ last'.op = "state" =>
          IF last'.arg \in LabelValues
          THEN last'.status = 200 /\ last'.ret = TRUE
          ELSE /\ last'.status = 400 /\ last'.ret = FALSE
               /\ current_state' = current_state
               /\ user_choices' = user_choices ]_vars

\* C13 witness: an unknown label was refused with 400 while the tracker held
\* a recorded choice and a non-initial state.
C13_Witness ==
    /\ last.op = "state"
    /\ last.arg = PyStr("bogus")
    /\ last.status = 400
    /\ last.ret = FALSE
    /\ current_state = PyStr("confirmation_state")
    /\ "valentine_response" \in DOMAIN user_choices

\* C14: validate_state is True for each of the ten labels, False for every
\* other string (the empty string included) and for every non-string, and it
\* changes neither current_state nor user_choices.
C14_ValidateState ==
    [][ last'.op = "validate_state" =>
          /\ last'.ret = (last'.arg \in LabelValues)
          /\ current_state' = current_state
          /\ user_choices' = user_choices ]_vars

\* C14 witness: a non-string was judged invalid on a tracker that had left
\* its initial state and recorded a choice.
C14_Witness ==
    /\ last.op = "validate_state"
    /\ last.arg = PyNone
    /\ last.ret = FALSE
    /\ current_state = PyStr("personal_memory")
    /\ user_choices # EmptyDict

\* C15: the "State transition failed" branch of the state route is never
\* taken: under every interleaving of requests, transition_to does not return
\* False for a label that validate_state accepted in the same request.
C15_TransitionFailedUnreachable ==
    ~(last.op = "state" /\ (last.status = 500 \/ last.text = "State transition failed"))

\* C15 witness: a thread has made its transition after validating, while
\* another thread sits between recording a special choice and its transition.
C15_Witness ==
    \E t \in Threads : \E u \in Threads \ {t} :
        /\ threads[t].pc = "state_transitioned"
        /\ threads[t].arg = PyStr("intro_text")
        /\ threads[u].pc = "choice_recorded"
        /\ current_state = PyStr("intro_text")

\* C16: a successful choice request whose type is not "valentine_response",
\* or whose value is none of "yes", "maybe", "friends", records
\* choices[type] = value, leaves current_state unchanged and carries no
\* next_state.
C16_OtherChoicesNoTransition ==
    (last.op = "choice" /\ last.status = 200
       /\ (last.body.type # PyStr("valentine_response")
           \/ last.body.value \notin {PyStr("yes"), PyStr("maybe"), PyStr("friends")}))
        => /\ current_state = last.prev
           /\ last.cs = PyNone
           /\ last.body.type.s \in DOMAIN user_choices
           /\ user_choices[last.body.type.s] = last.body.value

\* C16 witness: "yes" recorded for another type while the question was shown.
C16_Witness ==
    /\ last.op = "choice"
    /\ last.status = 200
    /\ last.body = Body("dict", PyStr("mood"), PyStr("yes"))
    /\ last.prev = PyStr("valentine_question")
    /\ current_state = PyStr("valentine_question")

\* C17: a successful recording for type t (direct call or request) makes
\* choices[t] its value, overwriting an earlier one, and leaves every other
\* entry as it was; a failed recording leaves user_choices as it was.
C17_LastRecordingWins ==
    [][ last'.op \in {"record_choice", "choice"} =>
          LET ok == IF last'.op = "choice" THEN last'.status = 200 ELSE last'.ret
              k == last'.body.type.s
          IN IF ok
             THEN /\ DOMAIN user_choices' = DOMAIN user_choices \cup {k}
                  /\ user_choices'[k] = last'.body.value
                  /\ \A x \in DOMAIN user_choices \ {k} : user_choices'[x] = user_choices[x]
             ELSE user_choices' = user_choices ]_vars

\* C17 witness: "maybe" was recorded by a direct call on a tracker that holds
\* entries for two other types and whose state shows an earlier "yes".
C17_Witness ==
    /\ last.op = "record_choice"
    /\ last.body = Body("call", PyStr("valentine_response"), PyStr("maybe"))
    /\ last.ret = TRUE
    /\ current_state = PyStr("confirmation_state")
    /\ DOMAIN user_choices = {"", "mood", "valentine_response"}
    /\ user_choices["valentine_response"] = PyStr("maybe")
    /\ user_choices["mood"] = PyStr("yes")

\* C18 (as claimed): with requests handled concurrently, every 200 response
\* of a state request for label L carries current_state = L.
C18_ResponseCarriesRequestedLabel ==
    (last.op = "state" /\ last.status = 200) => last.cs = last.arg

\* C18 (amended): every 200 response of a state request for label L carries
\* one of the ten labels as current_state, and it carries L unless another
\* request stored current_state between this request's transition_to and its
\* reading of current_state for the response.
C18_ResponseCarriesLabelUnlessOvertaken ==
    (last.op = "state" /\ last.status = 200)
        => /\ last.cs \in LabelValues
           /\ ~last.raced => last.cs = last.arg

\* C18 witness: a state request for intro_text was answered 200 with
\* current_state = loading, a Home request having come in between.
C18_Witness ==
    /\ last.op = "state"
    /\ last.status = 200
    /\ last.arg = PyStr("intro_text")
    /\ last.cs = PyStr("loading")
    /\ last.raced

\* C19: a Home request leaves user_choices exactly as it was.
C19_HomeKeepsChoices ==
    [][ last'.op = "home" => user_choices' = user_choices ]_vars

\* C19 witness: after a Home request the state is loading again and the
\* "yes" recorded earlier is still there.
C19_Witness ==
    /\ last.op = "home"
    /\ last.prev = PyStr("confirmation_state")
    /\ current_state = PyStr("loading")
    /\ "valentine_response" \in DOMAIN user_choices
    /\ user_choices["valentine_response"] = PyStr("yes")

\* C20 (as claimed): a choice request answered with an error status changes
\* neither user_choices nor current_state; a missing or empty body, or a
\* missing or falsy type or value, gives 400; a truthy non-string type with a
\* truthy value gives 500 "Failed to record choice".
C20_ChoiceErrors ==
    [][ last'.op = "choice" =>
          LET b == last'.body IN
          /\ last'.status >= 400
               => (user_choices' = user_choices /\ current_state' = current_state)
          /\ (b.kind \in {"raise", "falsy"}
                \/ (b.kind = "dict" /\ (~Truthy(b.type) \/ ~Truthy(b.value))))
               => last'.status = 400
          /\ (b.kind = "dict" /\ Truthy(b.type) /\ b.type.t # "str" /\ Truthy(b.value))
               => (last'.status = 500 /\ last'.text = "Failed to record choice") ]_vars

=============================================================================
